---- MODULE Spec2Model ----
(***************************************************************************)
(* A model of the script engine of hardforkhelp (script.py): the           *)
(* length-prefixed script codec (Script.parse / raw_serialize / serialize),*)
(* the stack-machine interpreter (Script.evaluate) with its P2SH and       *)
(* witness-program rewrites, the address templates (Script.address) and    *)
(* the transaction codec used by tx_test.py.                               *)
(*                                                                         *)
(* Byte strings are sequences of naturals 0..255.  A script item is a      *)
(* record [k, v]: k = "op" with v = <<code>> for a Python int, k = "data"  *)
(* with v = the bytes for a Python bytes object.  A stack element has the  *)
(* same shape, as the interpreter pushes both ints and bytes.              *)
(***************************************************************************)
EXTENDS Integers, Sequences, FiniteSets, TLC

VARIABLES
    stream,          \* the bytes of the stream handed to Script.parse
    pos,             \* number of bytes of the stream read so far
    body,            \* stream position right after the varint length
    length,          \* Script.parse: the declared length
    count,           \* Script.parse: the loop's byte counter
    pitems,          \* Script.parse: the items list being built
    ppc,             \* position of the parse / serialize run
    out,             \* result of Script.serialize
    self_items,      \* Script.items of the script being evaluated / addressed
    items,           \* Script.evaluate: the working queue
    stack,           \* Script.evaluate: the stack
    witness_program, \* tx_in.witness_program
    pc,              \* position of the evaluate / address run
    result,          \* what evaluate returned: "none", "true", "false", "raise"
    failed,          \* evaluate: an opcode function has returned failure
    fired,           \* evaluate: the rewrite rules applied so far, in order
    steps,           \* evaluate: passes of the loop made so far
    addr,            \* result of Script.address
    testnet,         \* the testnet argument of Script.address
    raw,             \* the bytes handed to Tx.parse
    tx,              \* the transaction Tx.parse built
    txpos,           \* number of bytes of raw that Tx.parse read
    txout,           \* result of Tx.serialize
    txpc,            \* position of the Tx codec run
    vtx_ins,         \* the inputs of the transaction being verified
    vtx_outs,        \* the amounts of its outputs
    fetches,         \* per input and field: fetches made from the data source
    order,           \* Tx.verify: whether the fee or the inputs are checked first
    call,            \* the last method called on the transaction, and on which input
    returned,        \* what it returned: a value, or "raise"
    ncalls,          \* number of calls made so far
    built,           \* the items of a Script built by its constructor
    sresult,         \* what serialize() returned for it: bytes, or a raise
    reparsed,        \* what Script.parse made of those bytes
    spc              \* position of the serialize / parse run

vars == <<stream, pos, body, length, count, pitems, ppc, out, self_items,
          items, stack, witness_program, pc, result, failed, fired, steps, addr,
          testnet, raw, tx, txpos, txout, txpc, vtx_ins, vtx_outs, fetches,
          order, call, returned, ncalls, built, sresult, reparsed, spc>>

parseVars == <<stream, pos, body, length, count, pitems, ppc, out>>
evalVars  == <<self_items, items, stack, witness_program, pc, result, failed,
               fired, steps>>
addrVars  == <<addr, testnet>>
txVars    == <<raw, tx, txpos, txout, txpc>>
verVars   == <<vtx_ins, vtx_outs, fetches, order, call, returned, ncalls>>
serVars   == <<built, sresult, reparsed, spc>>

----------------------------------------------------------------------------
(* Bounds of the model *)

\* longest stream enumerated byte by byte for Script.parse
MaxStream == 4

\* most items of the script_sig part of an evaluated script
MaxSigItems == 2

\* most passes of the loop of Script.evaluate that are followed
MaxSteps == 16

\* most inputs and most outputs of a transaction handed to Tx.parse
MaxTxIns == 2
MaxTxOuts == 1

\* most bytes cut off the end of a raw transaction
MaxCut == 1

\* the byte values the enumerated streams are made of: the opcodes OP_0 and
\* OP_1, the push lengths 1 and 2, and the varint marker 0xfd
ByteAlphabet == {0, 1, 2, 81, 253}

----------------------------------------------------------------------------
(* Bytes, items and elements *)

Op(n)   == [k |-> "op", v |-> <<n>>]
Data(b) == [k |-> "data", v |-> b]
IsOp(it)   == it.k = "op"
IsData(it) == it.k = "data"

Min(a, b) == IF a < b THEN a ELSE b

\* the element of a one-element set: Only({f(x) : x \in {e}}) is f(e), with
\* e evaluated once however often f uses x
Only(S) == CHOOSE x \in S : TRUE

\* little_endian_to_int
RECURSIVE little_endian_to_int(_)
little_endian_to_int(b) ==
    IF b = <<>> THEN 0 ELSE b[1] + 256 * little_endian_to_int(Tail(b))

\* int_to_little_endian(n, width)
RECURSIVE int_to_little_endian(_, _)
int_to_little_endian(n, width) ==
    IF width = 0 THEN <<>>
    ELSE <<n % 256>> \o int_to_little_endian(n \div 256, width - 1)

\* stream.read(n) at position p: Python returns what is left when fewer
\* than n bytes remain
Read(s, p, n) == SubSeq(s, p + 1, Min(p + n, Len(s)))
ReadPos(s, p, n) == Min(p + n, Len(s))

\* read_varint(s): one byte, or 0xfd/0xfe/0xff followed by 2/4/8 bytes
VarintWidth(i) == IF i = 253 THEN 2 ELSE IF i = 254 THEN 4 ELSE IF i = 255 THEN 8 ELSE 0
read_varint(s, p) ==
    IF p >= Len(s) THEN [ok |-> FALSE, val |-> 0, pos |-> p]
    ELSE LET i == s[p + 1]
             w == VarintWidth(i)
         IN IF w = 0 THEN [ok |-> TRUE, val |-> i, pos |-> p + 1]
            ELSE IF p + 1 + w > Len(s)
                 THEN [ok |-> FALSE, val |-> 0, pos |-> Len(s)]
                 ELSE [ok  |-> TRUE,
                       val |-> little_endian_to_int(Read(s, p + 1, w)),
                       pos |-> p + 1 + w]

\* encode_varint(i): the shortest of the four encodings
encode_varint(i) ==
    IF i < 253 THEN <<i>>
    ELSE IF i < 65536 THEN <<253>> \o int_to_little_endian(i, 2)
    ELSE <<254>> \o int_to_little_endian(i, 4)

----------------------------------------------------------------------------
(* Script.parse *)

\* one iteration of the while loop of Script.parse, from stream position p
\* with byte counter c and items its: s.read(1) at the end of the stream is
\* b'' and current[0] raises; s.read(n) near the end returns a short item
ParseIter(s, p, c, its) ==
    IF p >= Len(s) THEN [st |-> "raised", pos |-> p, count |-> c + 1, items |-> its]
    ELSE LET current_byte == s[p + 1] IN
         IF current_byte >= 1 /\ current_byte <= 75
         THEN [st |-> "loop", pos |-> ReadPos(s, p + 1, current_byte),
               count |-> c + 1 + current_byte,
               items |-> Append(its, Data(Read(s, p + 1, current_byte)))]
         ELSE [st |-> "loop", pos |-> p + 1, count |-> c + 1,
               items |-> Append(its, Op(current_byte))]

\* the whole loop: while count < length
RECURSIVE ParseLoop(_, _, _, _, _)
ParseLoop(s, len, p, c, its) ==
    IF c >= len THEN [st |-> "parsed", pos |-> p, count |-> c, items |-> its]
    ELSE Only({ IF r.st = "raised" THEN r
                ELSE ParseLoop(s, len, r.pos, r.count, r.items) :
                r \in {ParseIter(s, p, c, its)} })

\* Script.parse(s) on a stream s already read up to position p
ScriptParseAt(s, p) ==
    Only({ IF ~l.ok
           THEN [st |-> "raised", pos |-> l.pos, count |-> 0, items |-> <<>>]
           ELSE ParseLoop(s, l.val, l.pos, 0, <<>>) :
           l \in {read_varint(s, p)} })

\* Script.parse(BytesIO(s)) as a function of the bytes
ScriptParse(s) == ScriptParseAt(s, 0)

----------------------------------------------------------------------------
(* Script.raw_serialize and Script.serialize *)

\* a serializer that forgets the length prefix of a data item
RECURSIVE raw_serialize_noprefix(_)
raw_serialize_noprefix(its) ==
    IF its = <<>> THEN <<>>
    ELSE LET item == Head(its) IN
         (IF IsOp(item) THEN int_to_little_endian(item.v[1], 1) ELSE item.v)
         \o raw_serialize_noprefix(Tail(its))

RECURSIVE raw_serialize(_)
raw_serialize(its) ==
    IF its = <<>> THEN <<>>
    ELSE LET item == Head(its) IN
         (IF IsOp(item) THEN int_to_little_endian(item.v[1], 1)
          ELSE int_to_little_endian(Len(item.v), 1) \o item.v)
         \o raw_serialize(Tail(its))

serialize(its) ==
    LET res == raw_serialize(its) IN encode_varint(Len(res)) \o res

----------------------------------------------------------------------------
(* Hashing and signature checking: external capabilities, modelled as      *)
(* deterministic functions of their arguments                              *)

HashLen == 20
Sha256Len == 32

RECURSIVE ByteSum(_)
ByteSum(b) == IF b = <<>> THEN 0 ELSE Head(b) + ByteSum(Tail(b))

Digest(b) == (ByteSum(b) + 7 * Len(b)) % 256

\* hash160(b): a 20-byte string
hash160(b) == [i \in 1..HashLen |-> IF i = 1 THEN Digest(b) ELSE 160]

\* sha256(b): a 32-byte string
sha256(b) == [i \in 1..Sha256Len |-> IF i = 1 THEN Digest(b) ELSE 32]

\* point.verify(z, sig) for the input's signature hash z
point_verify(sig, sec) ==
    Len(sig) >= 2 /\ Len(sec) >= 1 /\ sig[1] = (sec[1] + 100) % 256

----------------------------------------------------------------------------
(* The opcode table: each function takes the stack and returns whether it  *)
(* succeeded and the stack it left                                         *)

OP_0 == 0
OP_1 == 81
OP_DUP == 118
OP_EQUAL == 135
OP_EQUALVERIFY == 136
OP_HASH160 == 169
OP_CHECKSIG == 172

Num(n) == [k |-> "int", v |-> <<n>>]
Top(st) == st[Len(st)]
Pop(st) == SubSeq(st, 1, Len(st) - 1)
Bad(st) == [ok |-> FALSE, stack |-> st]
Good(st) == [ok |-> TRUE, stack |-> st]

op_0(st) == Good(Append(st, Num(0)))
op_1(st) == Good(Append(st, Num(1)))
op_dup(st) == IF Len(st) < 1 THEN Bad(st) ELSE Good(Append(st, Top(st)))
op_hash160(st) ==
    IF Len(st) < 1 \/ ~IsData(Top(st)) THEN Bad(st)
    ELSE Good(Append(Pop(st), Data(hash160(Top(st).v))))
op_equal(st) ==
    IF Len(st) < 2 THEN Bad(st)
    ELSE Good(Append(Pop(Pop(st)),
                     IF Top(st) = Top(Pop(st)) THEN Num(1) ELSE Num(0)))
op_verify(st) ==
    IF Len(st) < 1 THEN Bad(st)
    ELSE IF Top(st) = Num(0) THEN Bad(Pop(st)) ELSE Good(Pop(st))
op_equalverify(st) ==
    LET r == op_equal(st) IN IF r.ok THEN op_verify(r.stack) ELSE r
op_checksig(st) ==
    IF Len(st) < 2 \/ ~IsData(Top(st)) \/ ~IsData(Top(Pop(st))) THEN Bad(st)
    ELSE Good(Append(Pop(Pop(st)),
                     IF point_verify(Top(Pop(st)).v, Top(st).v)
                     THEN Num(1) ELSE Num(0)))

\* OP_CODE_FUNCTIONS[code](stack): every code outside the seven above stands
\* for a reserved or disabled operation, which reports failure
OP_CODE_FUNCTIONS(code, st) ==
    IF code = OP_0 THEN op_0(st)
    ELSE IF code = OP_1 THEN op_1(st)
    ELSE IF code = OP_DUP THEN op_dup(st)
    ELSE IF code = OP_EQUAL THEN op_equal(st)
    ELSE IF code = OP_EQUALVERIFY THEN op_equalverify(st)
    ELSE IF code = OP_HASH160 THEN op_hash160(st)
    ELSE IF code = OP_CHECKSIG THEN op_checksig(st)
    ELSE Bad(st)

----------------------------------------------------------------------------
(* Script constructors *)

p2pkh_script(h160) ==
    <<Op(OP_DUP), Op(OP_HASH160), Data(h160), Op(OP_EQUALVERIFY), Op(OP_CHECKSIG)>>
p2sh_script(h160) == <<Op(OP_HASH160), Data(h160), Op(OP_EQUAL)>>
p2wpkh_script(h160) == <<Op(OP_0), Data(h160)>>
p2wsh_script(h256) == <<Op(OP_0), Data(h256)>>

----------------------------------------------------------------------------
(* The template tests and Script.address *)

is_p2pkh_script_pubkey(its) ==
    /\ Len(its) = 5
    /\ its[1] = Op(OP_DUP) /\ its[2] = Op(OP_HASH160)
    /\ IsData(its[3]) /\ Len(its[3].v) = HashLen
    /\ its[4] = Op(OP_EQUALVERIFY) /\ its[5] = Op(OP_CHECKSIG)

is_p2sh_script_pubkey(its) ==
    /\ Len(its) = 3
    /\ its[1] = Op(OP_HASH160)
    /\ IsData(its[2]) /\ Len(its[2].v) = HashLen
    /\ its[3] = Op(OP_EQUAL)

is_p2wpkh_script_pubkey(its) ==
    /\ Len(its) = 2
    /\ its[1] = Op(OP_0)
    /\ IsData(its[2]) /\ Len(its[2].v) = HashLen

\* a p2wsh test that takes a data item of any length
is_p2wsh_any_length(its) ==
    /\ Len(its) = 2
    /\ its[1] = Op(OP_0)
    /\ IsData(its[2])

is_p2wsh_script_pubkey(its) ==
    /\ Len(its) = 2
    /\ its[1] = Op(OP_0)
    /\ IsData(its[2]) /\ Len(its[2].v) = Sha256Len

\* the address encoders are external: an address is the encoder used, the
\* bytes handed to it and the network or prefix it was asked for
Address(enc, payload, net) == [enc |-> enc, payload |-> payload, net |-> net]
Unset == Address("unset", <<>>, "")
None == Address("None", <<>>, "")
Network(t) == IF t THEN "test" ELSE "main"
h160_to_p2pkh_address(h160, t) == Address("base58-p2pkh", h160, Network(t))
h160_to_p2sh_address(h160, t) == Address("base58-p2sh", h160, Network(t))
encode_bech32_checksum(b, prefix) == Address("bech32", b, prefix)

\* an address method that uses the mainnet prefix for every witness program
address_mainnet_prefix(its, t) ==
    IF is_p2pkh_script_pubkey(its) THEN h160_to_p2pkh_address(its[3].v, t)
    ELSE IF is_p2sh_script_pubkey(its) THEN h160_to_p2sh_address(its[2].v, t)
    ELSE IF is_p2wpkh_script_pubkey(its) \/ is_p2wsh_script_pubkey(its)
         THEN encode_bech32_checksum(raw_serialize(its), "bc")
    ELSE None

\* Script.address(testnet)
address(its, t) ==
    IF is_p2pkh_script_pubkey(its) THEN h160_to_p2pkh_address(its[3].v, t)
    ELSE IF is_p2sh_script_pubkey(its) THEN h160_to_p2sh_address(its[2].v, t)
    ELSE IF is_p2wpkh_script_pubkey(its)
         THEN encode_bech32_checksum(raw_serialize(its), IF t THEN "tb" ELSE "bc")
    ELSE IF is_p2wsh_script_pubkey(its)
         THEN encode_bech32_checksum(raw_serialize(its), IF t THEN "tb" ELSE "bc")
    ELSE None

----------------------------------------------------------------------------
(* Script.evaluate *)

\* what one pass of the while loop leaves: ret is "continue", or the value
\* returned ("false"), or "raise" for an exception; opfail tells that an
\* opcode function reported failure; fired lists the rewrites applied
Pass(ret, q, st, opfail, rules) ==
    [ret |-> ret, items |-> q, stack |-> st, opfail |-> opfail, fired |-> rules]

\* an interpreter that goes on after an opcode function reported failure
OpcodePassGoesOn(item, q, st) ==
    LET r == OP_CODE_FUNCTIONS(item.v[1], st) IN
    Pass("continue", q, r.stack, ~r.ok, <<>>)

\* lines 146-158: item is an op code
OpcodePass(item, q, st) ==
    LET r == OP_CODE_FUNCTIONS(item.v[1], st) IN
    IF ~r.ok THEN Pass("false", q, r.stack, TRUE, <<>>)
    ELSE Pass("continue", q, r.stack, FALSE, <<>>)

\* line 165-167: the p2sh rule's test on the remaining items
IsP2SHAhead(q) ==
    /\ Len(q) = 3
    /\ q[1] = Op(OP_HASH160)
    /\ IsData(q[2]) /\ Len(q[2].v) = HashLen
    /\ q[3] = Op(OP_EQUAL)

\* Script.parse(BytesIO(encode_varint(len(b)) + b)).items
ParsePrefixed(b) == ScriptParse(encode_varint(Len(b)) \o b)

\* a p2sh rule that splices the redeem script in whatever the hash
\* comparison gave
P2SHRuleNoHashCheck(item, q, st) ==
    IF ~IsP2SHAhead(q) THEN Pass("continue", q, st, FALSE, <<>>)
    ELSE Pass("continue", <<>> \o ParsePrefixed(item.v).items, Pop(st), FALSE, <<"p2sh">>)

\* a p2sh rule that leaves the pushed redeem script on the stack when the
\* hashes are equal
P2SHRuleKeepsItem(item, q, st) ==
    IF ~IsP2SHAhead(q) THEN Pass("continue", q, st, FALSE, <<>>)
    ELSE IF hash160(item.v) # q[2].v THEN Pass("false", <<>>, Pop(st), FALSE, <<"p2sh">>)
    ELSE Pass("continue", <<>> \o ParsePrefixed(item.v).items, st, FALSE, <<"p2sh">>)

\* lines 165-184: the p2sh rule, after item was appended to the stack
P2SHRule(item, q, st) ==
    IF ~IsP2SHAhead(q) THEN Pass("continue", q, st, FALSE, <<>>)
    ELSE LET h160 == q[2]
             r1 == op_hash160(st)
             r2 == op_equal(Append(r1.stack, h160))
             parsed == ParsePrefixed(item.v)
         IN IF ~r1.ok THEN Pass("false", <<>>, r1.stack, TRUE, <<"p2sh">>)
            ELSE IF ~r2.ok THEN Pass("false", <<>>, r2.stack, TRUE, <<"p2sh">>)
            ELSE IF Top(r2.stack) # Num(1)
                 THEN Pass("false", <<>>, Pop(r2.stack), FALSE, <<"p2sh">>)
            ELSE IF parsed.st # "parsed"
                 THEN Pass("raise", <<>>, Pop(r2.stack), FALSE, <<"p2sh">>)
            ELSE Pass("continue", <<>> \o parsed.items, Pop(r2.stack), FALSE, <<"p2sh">>)

\* a witness program test that looks for the zero on top of the stack and
\* for the n-byte string below it
IsWitnessStackZeroOnTop(st, n) ==
    /\ Len(st) = 2
    /\ st[2] = Num(0)
    /\ IsData(st[1]) /\ Len(st[1].v) = n

\* lines 187-188 and 195-196: the witness program tests on the stack
IsWitnessStack(st, n) ==
    /\ Len(st) = 2
    /\ st[1] = Num(0)
    /\ IsData(st[2]) /\ Len(st[2].v) = n

\* a p2wpkh rule that queues the p2pkh script before the witness items
P2WPKHRuleScriptFirst(q, st, w) ==
    IF ~IsWitnessStack(st, HashLen) THEN Pass("continue", q, st, FALSE, <<>>)
    ELSE Pass("continue", (q \o p2pkh_script(st[2].v)) \o w, <<>>, FALSE, <<"p2wpkh">>)

\* a p2wpkh rule that queues the p2pkh script without the witness items
P2WPKHRuleNoWitness(q, st, w) ==
    IF ~IsWitnessStack(st, HashLen) THEN Pass("continue", q, st, FALSE, <<>>)
    ELSE Pass("continue", q \o p2pkh_script(st[2].v), <<>>, FALSE, <<"p2wpkh">>)

\* lines 187-192: the p2wpkh rule
P2WPKHRule(q, st, w) ==
    IF ~IsWitnessStack(st, HashLen) THEN Pass("continue", q, st, FALSE, <<>>)
    ELSE Pass("continue", (q \o w) \o p2pkh_script(st[2].v), <<>>, FALSE, <<"p2wpkh">>)

\* lines 195-206: the p2wsh rule
P2WSHRule(q, st, w) ==
    IF ~IsWitnessStack(st, Sha256Len) THEN Pass("continue", q, st, FALSE, <<>>)
    ELSE LET h256 == st[2].v
             q1 == q \o SubSeq(w, 1, Len(w) - 1)
         IN IF w = <<>> \/ ~IsData(w[Len(w)])
            THEN Pass("raise", q1, <<>>, FALSE, <<"p2wsh">>)
            ELSE LET witness_script == w[Len(w)].v
                     parsed == ParsePrefixed(witness_script)
                 IN IF h256 # sha256(witness_script)
                    THEN Pass("false", q1, <<>>, FALSE, <<"p2wsh">>)
                    ELSE IF parsed.st # "parsed"
                    THEN Pass("raise", q1, <<>>, FALSE, <<"p2wsh">>)
                    ELSE Pass("continue", q1 \o parsed.items, <<>>, FALSE, <<"p2wsh">>)

\* lines 159-206: item is data: push it, then the three rules in turn
DataPass(item, q, st, w) ==
    LET a == P2SHRule(item, q, Append(st, item)) IN
    IF a.ret # "continue" THEN a
    ELSE LET b == P2WPKHRule(a.items, a.stack, w) IN
         LET c == P2WSHRule(b.items, b.stack, w) IN
         Pass(c.ret, c.items, c.stack, FALSE, (a.fired \o b.fired) \o c.fired)

\* a loop pass that tests the witness rules after an opcode as well
EvalPassRulesAfterOpcode(q, st, w) ==
    IF IsData(Head(q)) THEN DataPass(Head(q), Tail(q), st, w)
    ELSE Only({ IF a.ret # "continue" THEN a
                ELSE Only({ Only({ Pass(c.ret, c.items, c.stack, FALSE, b.fired \o c.fired) :
                                   c \in {P2WSHRule(b.items, b.stack, w)} }) :
                            b \in {P2WPKHRule(a.items, a.stack, w)} }) :
                a \in {OpcodePass(Head(q), Tail(q), st)} })

\* lines 145-206: one pass of the loop on a non-empty queue
EvalPass(q, st, w) ==
    LET item == Head(q) IN
    IF IsOp(item) THEN OpcodePass(item, Tail(q), st)
    ELSE DataPass(item, Tail(q), st, w)

\* lines 207-213: the result once the queue is empty
Finish(st) ==
    IF Len(st) = 0 THEN "false"
    ELSE IF Top(st) = Num(0) THEN "false"
    ELSE "true"

\* the value evaluate returns from queue q and stack st, "unknown" when the
\* loop has not returned within fuel passes
RECURSIVE Run(_, _, _, _)
Run(q, st, w, fuel) ==
    IF q = <<>> THEN Finish(st)
    ELSE IF fuel = 0 THEN "unknown"
    ELSE Only({ IF r.ret # "continue" THEN r.ret
                ELSE Run(r.items, r.stack, w, fuel - 1) :
                r \in {EvalPass(q, st, w)} })

\* self.items if the working queue were the script's own list
SelfItemsAliased(self, q) == q

\* self.items after a pass that left the working queue as q: the queue is
\* a copy (self.items[:]), so the script's own list is not touched
SelfItems(self, q) == self

----------------------------------------------------------------------------
(* The transaction codec: Tx.parse and Tx.serialize                        *)
(*   legacy:  version || varint(#ins) || ins || varint(#outs) || outs ||   *)
(*            locktime                                                     *)
(*   witness: version || 00 01 || varint(#ins) || ins || varint(#outs) ||  *)
(*            outs || per input: varint(#items) (varint(len) bytes)* ||    *)
(*            locktime                                                     *)
(* A read that finds fewer bytes than it asked for fails the parse.        *)

HashBytes == 32
IntBytes == 4
AmountBytes == 8

Reverse(b) == [i \in 1..Len(b) |-> b[Len(b) + 1 - i]]

Fail(p) == [ok |-> FALSE, pos |-> p]

\* s.read(n), failing on a short read
ReadExact(s, p, n) ==
    IF p + n > Len(s) THEN [ok |-> FALSE, val |-> <<>>, pos |-> Len(s)]
    ELSE [ok |-> TRUE, val |-> SubSeq(s, p + 1, p + n), pos |-> p + n]

TxInOf(prev_tx, prev_index, script_sig, sequence) ==
    [prev_tx |-> prev_tx, prev_index |-> prev_index, script_sig |-> script_sig,
     sequence |-> sequence]

\* TxIn.parse: prev_tx (reversed), prev_index, script_sig, sequence
TxInParse(s, p) ==
    Only({ Only({ Only({ Only({
        IF ~a.ok \/ ~b.ok \/ c.st # "parsed" \/ ~d.ok
        THEN [ok |-> FALSE, pos |-> p, val |-> TxInOf(<<>>, 0, <<>>, 0)]
        ELSE [ok |-> TRUE, pos |-> d.pos,
              val |-> TxInOf(Reverse(a.val), little_endian_to_int(b.val),
                             c.items, little_endian_to_int(d.val))] :
        d \in {ReadExact(s, c.pos, IntBytes)} }) :
        c \in {ScriptParseAt(s, b.pos)} }) :
        b \in {ReadExact(s, a.pos, IntBytes)} }) :
        a \in {ReadExact(s, p, HashBytes)} })

TxOutOf(amount, script_pubkey) == [amount |-> amount, script_pubkey |-> script_pubkey]

\* TxOut.parse: amount, script_pubkey
TxOutParse(s, p) ==
    Only({ Only({
        IF ~a.ok \/ c.st # "parsed"
        THEN [ok |-> FALSE, pos |-> p, val |-> TxOutOf(0, <<>>)]
        ELSE [ok |-> TRUE, pos |-> c.pos,
              val |-> TxOutOf(little_endian_to_int(a.val), c.items)] :
        c \in {ScriptParseAt(s, a.pos)} }) :
        a \in {ReadExact(s, p, AmountBytes)} })

\* one witness item: varint(len) || bytes
WitnessItemParse(s, p) ==
    Only({ IF ~l.ok THEN [ok |-> FALSE, pos |-> p, val |-> <<>>]
           ELSE ReadExact(s, l.pos, l.val) :
           l \in {read_varint(s, p)} })

\* n elements read one after the other by parser kind
ParseOne(kind, s, p) ==
    IF kind = "in" THEN TxInParse(s, p)
    ELSE IF kind = "out" THEN TxOutParse(s, p)
    ELSE WitnessItemParse(s, p)

RECURSIVE ParseMany(_, _, _, _, _)
ParseMany(kind, s, p, n, acc) ==
    IF n = 0 THEN [ok |-> TRUE, pos |-> p, val |-> acc]
    ELSE Only({ IF ~r.ok THEN [ok |-> FALSE, pos |-> p, val |-> acc]
                ELSE ParseMany(kind, s, r.pos, n - 1, Append(acc, r.val)) :
                r \in {ParseOne(kind, s, p)} })

\* varint(count) followed by count elements
ParseList(kind, s, p) ==
    Only({ IF ~l.ok THEN [ok |-> FALSE, pos |-> p, val |-> <<>>]
           ELSE ParseMany(kind, s, l.pos, l.val, <<>>) :
           l \in {read_varint(s, p)} })

\* the witness item lists, one per input
RECURSIVE ParseWitnesses(_, _, _, _)
ParseWitnesses(s, p, n, acc) ==
    IF n = 0 THEN [ok |-> TRUE, pos |-> p, val |-> acc]
    ELSE Only({ IF ~r.ok THEN [ok |-> FALSE, pos |-> p, val |-> acc]
                ELSE ParseWitnesses(s, r.pos, n - 1, Append(acc, r.val)) :
                r \in {ParseList("witness", s, p)} })

TxOf(version, segwit, tx_ins, tx_outs, witnesses, locktime) ==
    [version |-> version, segwit |-> segwit, tx_ins |-> tx_ins,
     tx_outs |-> tx_outs, witnesses |-> witnesses, locktime |-> locktime]
NoTx == TxOf(0, FALSE, <<>>, <<>>, <<>>, 0)

HasMarker(s, p) == p + 2 <= Len(s) /\ s[p + 1] = 0 /\ s[p + 2] = 1

\* Tx.parse
TxParse(s) ==
    Only({ Only({ Only({ Only({ Only({ Only({
        IF ~v.ok \/ ~ins.ok \/ ~outs.ok \/ ~wits.ok \/ ~lock.ok
        THEN [ok |-> FALSE, pos |-> Len(s), val |-> NoTx]
        ELSE [ok |-> TRUE, pos |-> lock.pos,
              val |-> TxOf(little_endian_to_int(v.val), segwit, ins.val, outs.val,
                           wits.val, little_endian_to_int(lock.val))] :
        lock \in {ReadExact(s, wits.pos, IntBytes)} }) :
        wits \in {IF segwit THEN ParseWitnesses(s, outs.pos, Len(ins.val), <<>>)
                  ELSE [ok |-> TRUE, pos |-> outs.pos,
                        val |-> [i \in 1..Len(ins.val) |-> <<>>]]} }) :
        outs \in {ParseList("out", s, ins.pos)} }) :
        ins \in {ParseList("in", s, IF segwit THEN v.pos + 2 ELSE v.pos)} }) :
        segwit \in {v.ok /\ HasMarker(s, v.pos)} }) :
        v \in {ReadExact(s, 0, IntBytes)} })

RECURSIVE Concat(_)
Concat(ss) == IF ss = <<>> THEN <<>> ELSE Head(ss) \o Concat(Tail(ss))

TxInSerialize(i) ==
    Reverse(i.prev_tx) \o int_to_little_endian(i.prev_index, IntBytes)
        \o serialize(i.script_sig) \o int_to_little_endian(i.sequence, IntBytes)

TxOutSerialize(o) ==
    int_to_little_endian(o.amount, AmountBytes) \o serialize(o.script_pubkey)

WitnessSerialize(w) ==
    encode_varint(Len(w))
        \o Concat([i \in 1..Len(w) |-> encode_varint(Len(w[i])) \o w[i]])

\* Tx.serialize: the witness encoding iff the marker was seen by parse
TxSerialize(t) ==
    int_to_little_endian(t.version, IntBytes)
        \o (IF t.segwit THEN <<0, 1>> ELSE <<>>)
        \o encode_varint(Len(t.tx_ins))
        \o Concat([i \in 1..Len(t.tx_ins) |-> TxInSerialize(t.tx_ins[i])])
        \o encode_varint(Len(t.tx_outs))
        \o Concat([i \in 1..Len(t.tx_outs) |-> TxOutSerialize(t.tx_outs[i])])
        \o (IF t.segwit
            THEN Concat([i \in 1..Len(t.witnesses) |-> WitnessSerialize(t.witnesses[i])])
            ELSE <<>>)
        \o int_to_little_endian(t.locktime, IntBytes)

----------------------------------------------------------------------------
(* Transaction verification: TxIn.value, TxIn.script_pubkey, Tx.fee,       *)
(* Tx.verify_input and Tx.verify.  An input is its script_sig, its         *)
(* witness_program, the previous output prev the data source holds for it  *)
(* (ok tells whether the fetch succeeds) and the two cache cells _value    *)
(* and _script_pubkey.                                                     *)

\* a cache cell: not resolved yet, or holding v
NoValue == [set |-> FALSE, v |-> 0]
NoScript == [set |-> FALSE, v |-> <<>>]
Cell(v) == [set |-> TRUE, v |-> v]

\* a call: the method and the index of the input it is about (0: none)
CallOf(name, i) == [name |-> name, i |-> i]
NoCall == CallOf("none", 0)

\* what a call returned: a boolean, a number, a script, or an exception
Returned(k, b, n, sc) == [k |-> k, b |-> b, n |-> n, s |-> sc]
NoReturn == Returned("none", "none", 0, <<>>)
Raised == Returned("raise", "none", 0, <<>>)
RBool(b) == Returned("bool", b, 0, <<>>)
RInt(n) == Returned("int", "none", n, <<>>)
RScript(sc) == Returned("script", "none", 0, sc)

\* the outcome of a method: what it returned and the inputs and the fetch
\* counters it left
CallOutcome(r, ins, fts) == [ret |-> r, ins |-> ins, fetches |-> fts]

\* one more fetch for field f of input i
Fetched(fts, i, f) == [fts EXCEPT ![i][f] = @ + 1]

\* a value() that asks the data source on every call
TxInValueRefetch(ins, fts, i) ==
    IF ~ins[i].prev.ok THEN CallOutcome(Raised, ins, Fetched(fts, i, "value"))
    ELSE CallOutcome(RInt(ins[i].prev.amount),
                  [ins EXCEPT ![i]._value = Cell(ins[i].prev.amount)],
                  Fetched(fts, i, "value"))

\* TxIn.value(): the cached value, else fetched from the previous output and
\* cached; a failed fetch is an error and caches nothing
TxInValue(ins, fts, i) ==
    IF ins[i]._value.set THEN CallOutcome(RInt(ins[i]._value.v), ins, fts)
    ELSE IF ~ins[i].prev.ok THEN CallOutcome(Raised, ins, Fetched(fts, i, "value"))
    ELSE CallOutcome(RInt(ins[i].prev.amount),
                  [ins EXCEPT ![i]._value = Cell(ins[i].prev.amount)],
                  Fetched(fts, i, "value"))

\* TxIn.script_pubkey(): the same for the script of the previous output
TxInScriptPubkey(ins, fts, i) ==
    IF ins[i]._script_pubkey.set THEN CallOutcome(RScript(ins[i]._script_pubkey.v), ins, fts)
    ELSE IF ~ins[i].prev.ok
         THEN CallOutcome(Raised, ins, Fetched(fts, i, "script_pubkey"))
    ELSE CallOutcome(RScript(ins[i].prev.script_pubkey),
                  [ins EXCEPT ![i]._script_pubkey = Cell(ins[i].prev.script_pubkey)],
                  Fetched(fts, i, "script_pubkey"))

\* Tx.sig_hash(i, hash_type): the digest is taken over the resolved
\* script_pubkey of input i
sig_hash(ins, fts, i) ==
    Only({ IF sp.ret.k = "raise" THEN sp
           ELSE CallOutcome(RInt(ByteSum(raw_serialize(sp.ret.s)) % 256), sp.ins, sp.fetches) :
           sp \in {TxInScriptPubkey(ins, fts, i)} })

\* Tx.verify_input(i): resolve value and script_pubkey, evaluate
\* script_sig + script_pubkey with the input's witness program
verify_input(ins, fts, i) ==
    Only({ IF v.ret.k = "raise" THEN v
           ELSE Only({ IF sp.ret.k = "raise" THEN sp
                       ELSE Only({ CallOutcome(IF e = "raise" THEN Raised ELSE RBool(e),
                                            sp.ins, sp.fetches) :
                                   e \in {Run(ins[i].script_sig \o sp.ret.s, <<>>,
                                              ins[i].witness_program, MaxSteps)} }) :
                       sp \in {TxInScriptPubkey(v.ins, v.fetches, i)} }) :
           v \in {TxInValue(ins, fts, i)} })

RECURSIVE SumAmounts(_)
SumAmounts(outs) == IF outs = <<>> THEN 0 ELSE Head(outs) + SumAmounts(Tail(outs))

\* the sum of value() over the inputs from i on, added to acc
RECURSIVE InputSum(_, _, _, _)
InputSum(ins, fts, i, acc) ==
    IF i > Len(ins) THEN CallOutcome(RInt(acc), ins, fts)
    ELSE Only({ IF v.ret.k = "raise" THEN v
                ELSE InputSum(v.ins, v.fetches, i + 1, acc + v.ret.n) :
                v \in {TxInValue(ins, fts, i)} })

\* Tx.fee(): input sum minus output sum; fails when a value cannot be
\* resolved
fee(ins, fts, outs) ==
    Only({ IF t.ret.k = "raise" THEN t
           ELSE CallOutcome(RInt(t.ret.n - SumAmounts(outs)), t.ins, t.fetches) :
           t \in {InputSum(ins, fts, 1, 0)} })

\* verify_input over the inputs from i on, up to the first that is not True
RECURSIVE VerifyInputs(_, _, _)
VerifyInputs(ins, fts, i) ==
    IF i > Len(ins) THEN CallOutcome(RBool("true"), ins, fts)
    ELSE Only({ IF r.ret # RBool("true") THEN r
                ELSE VerifyInputs(r.ins, r.fetches, i + 1) :
                r \in {verify_input(ins, fts, i)} })

\* the fee test of Tx.verify
FeeCheck(ins, fts, outs) ==
    Only({ IF f.ret.k = "raise" THEN f
           ELSE CallOutcome(RBool(IF f.ret.n < 0 THEN "false" ELSE "true"), f.ins, f.fetches) :
           f \in {fee(ins, fts, outs)} })

\* Tx.verify(): every input verifies and the fee is not negative; ord is
\* the part checked first
verify(ins, fts, outs, ord) ==
    IF ord = "inputs-first"
    THEN Only({ IF a.ret # RBool("true") THEN a
                ELSE FeeCheck(a.ins, a.fetches, outs) :
                a \in {VerifyInputs(ins, fts, 1)} })
    ELSE Only({ IF a.ret # RBool("true") THEN a
                ELSE VerifyInputs(a.ins, a.fetches, 1) :
                a \in {FeeCheck(ins, fts, outs)} })

----------------------------------------------------------------------------
(* The parse / serialize run: Script.parse(BytesIO(stream)).serialize() *)

Streams == UNION {[1..n -> ByteAlphabet] : n \in 0..MaxStream}

\* streams with the 4- and 8-byte varint forms and with a 20-byte push
ExtraStreams ==
    { <<254, 1, 0, 0, 0, 81>>,
      <<255, 2, 0, 0, 0, 0, 0, 0, 0, 81, 0>>,
      <<254, 1, 0, 0>>,
      <<3, 169, 20, 135>>,
      <<23, 169, 20>> \o [i \in 1..20 |-> 7] \o <<135>> }

ParseIdle ==
    /\ stream = <<>> /\ pos = 0 /\ body = 0 /\ length = 0 /\ count = 0
    /\ pitems = <<>> /\ ppc = "idle" /\ out = <<>>

EvalIdle ==
    /\ self_items = <<>> /\ items = <<>> /\ stack = <<>>
    /\ witness_program = <<>> /\ pc = "idle" /\ result = "none"
    /\ failed = FALSE /\ fired = <<>> /\ steps = 0
    /\ addr = Unset /\ testnet = FALSE

TxIdle ==
    /\ raw = <<>> /\ tx = NoTx /\ txpos = 0 /\ txout = <<>> /\ txpc = "idle"

VerIdle ==
    /\ vtx_ins = <<>> /\ vtx_outs = <<>> /\ fetches = <<>> /\ order = "none"
    /\ call = NoCall /\ returned = NoReturn /\ ncalls = 0

\* no bytes returned yet, bytes returned, an OverflowError
NoBytes == [st |-> "none", v |-> <<>>]
Bytes(b) == [st |-> "bytes", v |-> b]
Overflow == [st |-> "raise", v |-> <<>>]

\* nothing parsed yet
NoParse == [st |-> "none", pos |-> 0, count |-> 0, items |-> <<>>]

SerIdle ==
    /\ built = <<>> /\ sresult = NoBytes /\ reparsed = NoParse /\ spc = "idle"

InitParse ==
    /\ stream \in Streams \cup ExtraStreams
    /\ pos = 0 /\ body = 0 /\ length = 0 /\ count = 0
    /\ pitems = <<>> /\ ppc = "start" /\ out = <<>>
    /\ EvalIdle /\ TxIdle /\ VerIdle /\ SerIdle

\* length = read_varint(s); items = []; count = 0
ReadLength ==
    /\ ppc = "start"
    /\ LET l == read_varint(stream, 0) IN
       /\ pos' = l.pos
       /\ body' = l.pos
       /\ length' = l.val
       /\ ppc' = IF l.ok THEN "loop" ELSE "raised"
    /\ UNCHANGED <<stream, count, pitems, out, evalVars, addrVars, txVars, verVars, serVars>>

\* one iteration of: while count < length
ParseStep ==
    /\ ppc = "loop"
    /\ count < length
    /\ LET r == ParseIter(stream, pos, count, pitems) IN
       /\ pos' = r.pos
       /\ count' = r.count
       /\ pitems' = r.items
       /\ ppc' = r.st
    /\ UNCHANGED <<stream, body, length, out, evalVars, addrVars, txVars, verVars, serVars>>

\* return cls(items)
ParseReturn ==
    /\ ppc = "loop"
    /\ count >= length
    /\ ppc' = "parsed"
    /\ UNCHANGED <<stream, pos, body, length, count, pitems, out, evalVars, addrVars, txVars, verVars, serVars>>

\* script.serialize() on the parsed script
Serialize ==
    /\ ppc = "parsed"
    /\ out' = serialize(pitems)
    /\ ppc' = "serialized"
    /\ UNCHANGED <<stream, pos, body, length, count, pitems, evalVars, addrVars, txVars, verVars, serVars>>

NextParse == ReadLength \/ ParseStep \/ ParseReturn \/ Serialize

SpecParse == InitParse /\ [][NextParse]_vars

----------------------------------------------------------------------------
(* The evaluate run: Script(self_items).evaluate(tx_in) *)

\* a public key, a signature it verifies and one it does not
SEC == <<3, 7>>
SIG == <<103, 1>>
BADSIG == <<9, 1>>

\* raw redeem / witness scripts: OP_1, OP_0, OP_EQUAL, the p2wpkh script of
\* SEC, and a push that is longer than what follows it
R_TRUE == <<81>>
R_FALSE == <<0>>
R_EQUAL == <<135>>
R_WPKH == raw_serialize(p2wpkh_script(hash160(SEC)))
R_SHORT == <<5, 1>>

SigPool ==
    { Op(OP_0), Op(OP_1), Op(OP_HASH160), Op(255),
      Data(SIG), Data(BADSIG), Data(SEC),
      Data(R_TRUE), Data(R_FALSE), Data(R_EQUAL), Data(R_WPKH), Data(R_SHORT) }

PubkeyPool ==
    { <<>>,
      <<Op(OP_EQUAL)>>,
      <<Op(OP_CHECKSIG)>>,
      p2pkh_script(hash160(SEC)),
      p2sh_script(hash160(R_TRUE)),
      p2sh_script(hash160(R_FALSE)),
      p2sh_script(hash160(R_EQUAL)),
      p2sh_script(hash160(R_WPKH)),
      p2sh_script(hash160(R_SHORT)),
      p2wpkh_script(hash160(SEC)),
      p2wpkh_script(hash160(SEC)) \o <<Op(OP_EQUAL)>>,
      p2wpkh_script(hash160(SEC)) \o <<Op(OP_1)>>,
      p2wsh_script(sha256(R_TRUE)),
      p2wsh_script(sha256(R_TRUE)) \o <<Op(OP_0)>> }

WitnessPool ==
    { <<>>,
      <<Data(SIG), Data(SEC)>>,
      <<Data(BADSIG), Data(SEC)>>,
      <<Data(R_TRUE)>>,
      <<Data(SEC), Data(R_TRUE)>>,
      <<Op(OP_0), Data(hash160(SEC))>> }

\* script_sig + script_pubkey of a p2sh-p2wpkh spend for the hash h: the
\* push of the redeem script (0x00, h), then the p2sh script of its hash160
NestedP2WPKH(h) ==
    <<Data(raw_serialize(p2wpkh_script(h)))>>
        \o p2sh_script(hash160(raw_serialize(p2wpkh_script(h))))

\* scripts whose stack takes the witness shape by an opcode, followed by a
\* p2sh spend; p2sh spends followed by one more item; a p2sh-p2wpkh spend
ExtraScripts ==
    { <<Op(OP_0), Data(SEC), Op(OP_HASH160), Data(R_TRUE)>>
          \o p2sh_script(hash160(R_TRUE)),
      <<Op(OP_0), Data(SEC), Op(OP_HASH160)>>,
      (<<Data(R_FALSE)>> \o p2sh_script(hash160(R_FALSE))) \o <<Op(OP_1)>>,
      (<<Data(R_TRUE)>> \o p2sh_script(hash160(R_TRUE))) \o <<Data(SEC)>>,
      NestedP2WPKH(hash160(R_TRUE)) }

SigScripts == UNION {[1..n -> SigPool] : n \in 0..MaxSigItems}

InitEval ==
    /\ self_items \in {sig \o pk : sig \in SigScripts, pk \in PubkeyPool}
                        \cup ExtraScripts
    /\ witness_program \in WitnessPool
    /\ items = <<>> /\ stack = <<>> /\ pc = "start" /\ result = "none"
    /\ failed = FALSE /\ fired = <<>> /\ steps = 0
    /\ addr = Unset /\ testnet = FALSE
    /\ ParseIdle /\ TxIdle /\ VerIdle /\ SerIdle

\* lines 142-143: items = self.items[:]; stack = []
EvalStart ==
    /\ pc = "start"
    /\ items' = self_items
    /\ stack' = <<>>
    /\ pc' = "loop"
    /\ self_items' = SelfItems(self_items, self_items)
    /\ UNCHANGED <<witness_program, result, failed, fired, steps, addrVars, parseVars, txVars, verVars, serVars>>

\* lines 144-206: one pass of the while loop
EvalStep ==
    /\ pc = "loop"
    /\ Len(items) > 0
    /\ steps < MaxSteps
    /\ LET r == EvalPass(items, stack, witness_program) IN
       /\ items' = r.items
       /\ stack' = r.stack
       /\ failed' = r.opfail
       /\ fired' = fired \o r.fired
       /\ pc' = IF r.ret = "continue" THEN "loop" ELSE "done"
       /\ result' = IF r.ret = "continue" THEN result ELSE r.ret
       /\ self_items' = SelfItems(self_items, r.items)
    /\ steps' = steps + 1
    /\ UNCHANGED <<witness_program, addrVars, parseVars, txVars, verVars, serVars>>

\* lines 207-213: the queue is empty
EvalReturn ==
    /\ pc = "loop"
    /\ Len(items) = 0
    /\ result' = Finish(stack)
    /\ stack' = IF Len(stack) = 0 THEN stack ELSE Pop(stack)
    /\ pc' = "done"
    /\ self_items' = SelfItems(self_items, items)
    /\ UNCHANGED <<items, witness_program, failed, fired, steps, addrVars, parseVars, txVars, verVars, serVars>>

NextEval == EvalStart \/ EvalStep \/ EvalReturn

SpecEval == InitEval /\ [][NextEval]_vars

----------------------------------------------------------------------------
(* The evaluate run to its end: the loop of Script.evaluate goes on as     *)
(* long as the queue holds an item                                         *)

\* a witness script that parses to no item, and one that is OP_0 alone
WS_EMPTY == <<>>
WS_ZERO == <<OP_0>>

\* p2wsh spends whose witness program holds the witness script's own hash:
\* after an int item 0 (an empty witness item), or as the only other item
\* while the script goes on with OP_0
SelfHashScripts ==
    { p2wsh_script(sha256(WS_EMPTY)),
      p2wsh_script(sha256(WS_ZERO)) \o <<Op(OP_0)>>,
      p2wsh_script(sha256(WS_ZERO)) }

SelfHashWitnesses ==
    { <<Op(OP_0), Data(sha256(WS_EMPTY)), Data(WS_EMPTY)>>,
      <<Data(sha256(WS_ZERO)), Data(WS_ZERO)>> }

InitTerminate ==
    /\ self_items \in {sig \o pk : sig \in {<<>>} \cup {<<x>> : x \in SigPool},
                                   pk \in PubkeyPool}
                        \cup ExtraScripts \cup SelfHashScripts
    /\ witness_program \in WitnessPool \cup SelfHashWitnesses
    /\ items = <<>> /\ stack = <<>> /\ pc = "start" /\ result = "none"
    /\ failed = FALSE /\ fired = <<>> /\ steps = 0
    /\ addr = Unset /\ testnet = FALSE
    /\ ParseIdle /\ TxIdle /\ VerIdle /\ SerIdle

\* lines 144-206: one pass of the while loop, with no record kept of the
\* passes made and the rules applied
EvalLoop ==
    /\ pc = "loop"
    /\ Len(items) > 0
    /\ LET r == EvalPass(items, stack, witness_program) IN
       /\ items' = r.items
       /\ stack' = r.stack
       /\ failed' = r.opfail
       /\ pc' = IF r.ret = "continue" THEN "loop" ELSE "done"
       /\ result' = IF r.ret = "continue" THEN result ELSE r.ret
       /\ self_items' = SelfItems(self_items, r.items)
    /\ UNCHANGED <<witness_program, fired, steps, addrVars, parseVars, txVars, verVars, serVars>>

NextTerminate == EvalStart \/ EvalLoop \/ EvalReturn

\* the interpreter runs on by itself: a pass of the loop that can be made
\* is made
SpecTerminate == InitTerminate /\ [][NextTerminate]_vars /\ WF_vars(NextTerminate)

----------------------------------------------------------------------------
(* The address run: Script(self_items).address(testnet) *)

\* hashes of 20 and 32 bytes, and strings one byte off those lengths
HashPool ==
    { hash160(SEC), hash160(R_TRUE), sha256(SEC), sha256(R_TRUE),
      [i \in 1..(HashLen - 1) |-> 9], [i \in 1..(HashLen + 1) |-> 9],
      [i \in 1..(Sha256Len + 1) |-> 9] }

\* the four templates and near misses of them
ShapesOf(h) ==
    { p2pkh_script(h), p2sh_script(h), p2wpkh_script(h), p2wsh_script(h),
      p2pkh_script(h) \o <<Op(OP_1)>>,
      <<Op(OP_HASH160), Data(h), Op(OP_EQUALVERIFY)>>,
      <<Op(OP_1), Data(h)>>,
      <<Data(<<0>>), Data(h)>>,
      <<Op(OP_0), Data(h), Op(OP_1)>>,
      <<Data(h)>> }

AddrScripts == UNION {ShapesOf(h) : h \in HashPool} \cup {<<>>}

InitAddr ==
    /\ self_items \in AddrScripts
    /\ items = <<>> /\ stack = <<>> /\ witness_program = <<>>
    /\ pc = "address" /\ result = "none"
    /\ failed = FALSE /\ fired = <<>> /\ steps = 0
    /\ addr = Unset /\ testnet = FALSE
    /\ ParseIdle /\ TxIdle /\ VerIdle /\ SerIdle

\* script.address(testnet=t)
CallAddress ==
    /\ pc = "address"
    /\ \E t \in BOOLEAN :
          /\ testnet' = t
          /\ addr' = address(self_items, t)
    /\ pc' = "addressed"
    /\ UNCHANGED <<self_items, items, stack, witness_program, result, failed,
                   fired, steps, parseVars, txVars, verVars, serVars>>

NextAddr == CallAddress

SpecAddr == InitAddr /\ [][NextAddr]_vars

----------------------------------------------------------------------------
(* The transaction codec run: Tx.parse(BytesIO(raw)).serialize() *)

\* serialized script_sigs: empty, OP_1, a one-byte push, and a one-byte
\* push under a declared length of 1
SigRaws == { <<0>>, <<1, 81>>, <<2, 1, 170>>, <<1, 1, 170>> }

InRaws ==
    { [i \in 1..HashBytes |-> IF i = 1 THEN 209 ELSE 0] \o <<1, 0, 0, 0>>
          \o sig \o <<254, 255, 255, 0>> : sig \in SigRaws }

OutRaws ==
    { <<64, 156, 0, 0, 0, 0, 0, 0>> \o pk :
          pk \in { <<0>>, serialize(p2pkh_script(hash160(SEC))) } }

\* the witness of one input: no item, one item, two items
WitnessRaws == { <<0>>, <<1, 1, 7>>, <<2, 2, 103, 1, 2, 3, 7>> }

RawIns == UNION {[1..n -> InRaws] : n \in 0..MaxTxIns}
RawOuts == UNION {[1..n -> OutRaws] : n \in 0..MaxTxOuts}

LegacyRaw(v, ins, outs) ==
    int_to_little_endian(v, IntBytes)
        \o encode_varint(Len(ins)) \o Concat(ins)
        \o encode_varint(Len(outs)) \o Concat(outs)
        \o <<25, 67, 6, 0>>

WitnessRaw(v, ins, outs, w) ==
    int_to_little_endian(v, IntBytes) \o <<0, 1>>
        \o encode_varint(Len(ins)) \o Concat(ins)
        \o encode_varint(Len(outs)) \o Concat(outs)
        \o Concat([i \in 1..Len(ins) |-> w])
        \o <<25, 67, 6, 0>>

FullRaws ==
    { LegacyRaw(v, ins, outs) : v \in {1, 2}, ins \in RawIns, outs \in RawOuts }
    \cup { WitnessRaw(v, ins, outs, w) :
               v \in {1}, ins \in RawIns, outs \in RawOuts, w \in WitnessRaws }

InitTx ==
    /\ raw \in { SubSeq(r, 1, Len(r) - cut) : r \in FullRaws, cut \in 0..MaxCut }
    /\ tx = NoTx /\ txpos = 0 /\ txout = <<>> /\ txpc = "start"
    /\ ParseIdle /\ EvalIdle /\ VerIdle /\ SerIdle

\* tx = Tx.parse(BytesIO(raw))
CallTxParse ==
    /\ txpc = "start"
    /\ \E r \in {TxParse(raw)} :
       /\ tx' = r.val
       /\ txpos' = r.pos
       /\ txpc' = IF r.ok THEN "parsed" ELSE "raised"
    /\ UNCHANGED <<raw, txout, parseVars, evalVars, addrVars, verVars, serVars>>

\* tx.serialize()
CallTxSerialize ==
    /\ txpc = "parsed"
    /\ txout' = TxSerialize(tx)
    /\ txpc' = "serialized"
    /\ UNCHANGED <<raw, tx, txpos, parseVars, evalVars, addrVars, verVars, serVars>>

NextTx == CallTxParse \/ CallTxSerialize

SpecTx == InitTx /\ [][NextTx]_vars

----------------------------------------------------------------------------
(* The verification run: calls of value, script_pubkey, sig_hash, fee,     *)
(* verify_input and verify on one transaction, in any order                *)

\* most inputs of a verified transaction, and most calls made on it
MaxVerIns == 2
MaxCalls == 2

\* the amount of every previous output
PrevAmount == 2

\* script_sig, witness program and previous script_pubkey of an input: a
\* valid and an invalid p2pkh spend, and a p2wsh spend without witness
SpendPool ==
    { [script_sig |-> <<Data(SIG), Data(SEC)>>, witness_program |-> <<>>,
       script_pubkey |-> p2pkh_script(hash160(SEC))],
      [script_sig |-> <<Data(BADSIG), Data(SEC)>>, witness_program |-> <<>>,
       script_pubkey |-> p2pkh_script(hash160(SEC))],
      [script_sig |-> <<>>, witness_program |-> <<>>,
       script_pubkey |-> p2wsh_script(sha256(R_TRUE))] }

\* an input as Tx.parse leaves it (nothing cached) with a data source that
\* answers or fails, or with _value and _script_pubkey assigned directly,
\* as the tests do, and no data source to reach
VerInputs ==
    { [script_sig |-> sp.script_sig, witness_program |-> sp.witness_program,
       prev |-> [ok |-> src = "answers", amount |-> PrevAmount,
                 script_pubkey |-> sp.script_pubkey],
       _value |-> IF src = "preset" THEN Cell(PrevAmount) ELSE NoValue,
       _script_pubkey |-> IF src = "preset" THEN Cell(sp.script_pubkey) ELSE NoScript] :
      sp \in SpendPool, src \in {"answers", "fails", "preset"} }

OutAmounts == { <<1>>, <<3>>, <<2, 3>> }

InitVerify ==
    /\ vtx_ins \in UNION {[1..n -> VerInputs] : n \in 0..MaxVerIns}
    /\ vtx_outs \in OutAmounts
    /\ fetches = [i \in 1..Len(vtx_ins) |-> [value |-> 0, script_pubkey |-> 0]]
    /\ order \in {"inputs-first", "fee-first"}
    /\ call = NoCall /\ returned = NoReturn /\ ncalls = 0
    /\ ParseIdle /\ EvalIdle /\ TxIdle /\ SerIdle

\* the state a call leaves
Called(name, i, r) ==
    /\ ncalls < MaxCalls
    /\ call' = CallOf(name, i)
    /\ returned' = r.ret
    /\ vtx_ins' = r.ins
    /\ fetches' = r.fetches
    /\ ncalls' = ncalls + 1
    /\ UNCHANGED <<vtx_outs, order, parseVars, evalVars, addrVars, txVars, serVars>>

\* tx.tx_ins[i].value()
CallValue ==
    \E i \in 1..Len(vtx_ins) :
        \E r \in {TxInValue(vtx_ins, fetches, i)} : Called("value", i, r)

\* tx.tx_ins[i].script_pubkey()
CallScriptPubkey ==
    \E i \in 1..Len(vtx_ins) :
        \E r \in {TxInScriptPubkey(vtx_ins, fetches, i)} : Called("script_pubkey", i, r)

\* tx.sig_hash(i, hash_type)
CallSigHash ==
    \E i \in 1..Len(vtx_ins) :
        \E r \in {sig_hash(vtx_ins, fetches, i)} : Called("sig_hash", i, r)

\* tx.verify_input(i)
CallVerifyInput ==
    \E i \in 1..Len(vtx_ins) :
        \E r \in {verify_input(vtx_ins, fetches, i)} : Called("verify_input", i, r)

\* tx.fee()
CallFee ==
    \E r \in {fee(vtx_ins, fetches, vtx_outs)} : Called("fee", 0, r)

\* tx.verify()
CallVerify ==
    \E r \in {verify(vtx_ins, fetches, vtx_outs, order)} : Called("verify", 0, r)

NextVerify ==
    \/ CallValue
    \/ CallScriptPubkey
    \/ CallSigHash
    \/ CallVerifyInput
    \/ CallFee
    \/ CallVerify

SpecVerify == InitVerify /\ [][NextVerify]_vars

----------------------------------------------------------------------------
(* The serialize run: Script.parse(BytesIO(Script(built).serialize()))     *)

\* most items of a Script handed to serialize
MaxBuilt == 2

\* n bytes of data, each 0x4b
Filler(n) == [i \in 1..n |-> 75]

\* the items a Script is built from: opcodes, an int in the push range, and
\* data items of 0, 1, 75, 76, 255 and 256 bytes
BuiltItems ==
    { Op(OP_0), Op(OP_1), Op(2),
      Data(<<>>), Data(<<7>>), Data(Filler(75)), Data(Filler(76)),
      Data(Filler(255)), Data(Filler(256)) }

InitSerialize ==
    /\ built \in UNION {[1..n -> BuiltItems] : n \in 0..MaxBuilt}
    /\ sresult = NoBytes /\ reparsed = NoParse /\ spc = "built"
    /\ ParseIdle /\ EvalIdle /\ TxIdle /\ VerIdle

\* int_to_little_endian(length, 1) raises OverflowError for a length that
\* does not fit one byte
FitsOneByte(its) == \A i \in 1..Len(its) : IsData(its[i]) => Len(its[i].v) <= 255

\* Script(built).serialize()
CallSerialize ==
    /\ spc = "built"
    /\ sresult' = IF FitsOneByte(built) THEN Bytes(serialize(built)) ELSE Overflow
    /\ spc' = IF FitsOneByte(built) THEN "serialized" ELSE "raised"
    /\ UNCHANGED <<built, reparsed, parseVars, evalVars, addrVars, txVars, verVars>>

\* Script.parse(BytesIO(...)) on the bytes serialize returned
CallParse ==
    /\ spc = "serialized"
    /\ reparsed' = ScriptParse(sresult.v)
    /\ spc' = "reparsed"
    /\ UNCHANGED <<built, sresult, parseVars, evalVars, addrVars, txVars, verVars>>

NextSerialize == CallSerialize \/ CallParse

SpecSerialize == InitSerialize /\ [][NextSerialize]_vars

----------------------------------------------------------------------------
(* Claims about the script codec *)

\* the stream parsed is a well-formed serialization: every byte the loop
\* counted was there (no short read), the loop stopped exactly at the
\* declared length, and every data item has 1..75 bytes
WellFormedParse ==
    /\ pos - body = count
    /\ count = length
    /\ \A i \in 1..Len(pitems) :
          IsData(pitems[i]) => Len(pitems[i].v) >= 1 /\ Len(pitems[i].v) <= 75

\* the bytes the script was parsed from
Consumed == SubSeq(stream, 1, pos)

\* the length prefix is the shortest varint of the declared length
MinimalLengthPrefix == SubSeq(stream, 1, body) = encode_varint(length)

RoundTrips ==
    /\ out = Consumed
    /\ ScriptParse(out).st = "parsed"
    /\ ScriptParse(out).items = pitems

C2_ParseFailsOnTruncation ==
    ppc = "parsed" => Len(stream) - body >= length

\* C19: when parse returns, the number of bytes it has read after the
\* length prefix is the declared length
C19_ConsumesDeclaredLength ==
    ppc = "parsed" => pos - body = length

\* the item one iteration of the parse loop has appended
LastParsed == pitems'[Len(pitems')]

\* the item is the n bytes of the stream that follow the control byte
IsDataOfNext(it, n) ==
    /\ it.k = "data"
    /\ Len(it.v) = n
    /\ \A j \in 1..Len(it.v) : it.v[j] = stream[pos + 1 + j]

\* C20: one iteration of the parse loop appends exactly one item to the
\* items read so far: for a control byte 1..75 a data item made of exactly
\* that many following bytes, for any other control byte the one-byte opcode
Classified ==
    (ppc = "loop" /\ count < length /\ pos < Len(stream)) =>
        /\ Len(pitems') = Len(pitems) + 1
        /\ SubSeq(pitems', 1, Len(pitems)) = pitems
        /\ IF stream[pos + 1] \in 1..75
           THEN IsDataOfNext(LastParsed, stream[pos + 1])
           ELSE LastParsed = Op(stream[pos + 1])

C20_ItemClassification == [][Classified]_vars

----------------------------------------------------------------------------
(* Claims about Script.evaluate *)

\* truthiness of a stack element as the specification words it: a number
\* other than zero, or a byte string that is non-empty and not all zero
Truthy(e) ==
    IF e.k = "int" THEN e.v[1] # 0
    ELSE e.v # <<>> /\ \E i \in 1..Len(e.v) : e.v[i] # 0

\* C3: when the queue is empty, evaluate returns True iff the stack is
\* non-empty and its top element is truthy
C3_FinalResultIsTruthiness ==
    [][(pc = "loop" /\ items = <<>> /\ pc' = "done")
          => (result' = "true" <=> (stack # <<>> /\ Truthy(Top(stack))))]_vars

\* C4: evaluate reports every outcome as a boolean and never raises
C4_NeverRaises == result # "raise"

\* the pass the loop is about to make
PassNow == EvalPass(items, stack, witness_program)
AboutToPass == pc = "loop" /\ items # <<>>
AboutToFire(rule) ==
    AboutToPass /\ \E i \in 1..Len(PassNow.fired) : PassNow.fired[i] = rule

\* the value evaluate is going to return from the present state
Outcome == Run(items, stack, witness_program, MaxSteps)
OutcomeOf(q, st) == Run(q, st, witness_program, MaxSteps)

\* the next item is an opcode whose function reports failure
OpFailsNow ==
    /\ AboutToPass
    /\ IsOp(Head(items))
    /\ ~OP_CODE_FUNCTIONS(Head(items).v[1], stack).ok

\* C5: when an opcode function returns failure, evaluate returns False at
\* once, with the rest of the queue not executed, and a result once
\* returned never changes
C5_FailFast ==
    [][/\ (OpFailsNow /\ steps < MaxSteps)
            => (pc' = "done" /\ result' = "false" /\ items' = Tail(items))
       /\ pc = "done" => (pc' = "done" /\ result' = result)]_vars

\* an opcode failed while items were still queued, and False was returned
C5_Witness ==
    pc = "done" /\ failed /\ result = "false" /\ items # <<>>

P2SHReady ==
    /\ pc = "loop"
    /\ Len(items) = 4
    /\ IsData(items[1])
    /\ IsP2SHAhead(Tail(items))

RedeemItems == ParsePrefixed(items[1].v).items
RedeemHashMatches == hash160(items[1].v) = items[3].v

\* C7 as stated: a p2sh spend evaluates to True iff the redeem script,
\* run on the stack the preceding items left, evaluates to True
C7_P2SHIffRedeem ==
    (P2SHReady /\ Outcome # "unknown" /\ OutcomeOf(RedeemItems, stack) # "unknown")
        => (Outcome = "true" <=> OutcomeOf(RedeemItems, stack) = "true")

\* C7 amended: it evaluates to True iff the hash160 of the pushed redeem
\* script equals the hash of the template and the redeem script, run on
\* the stack the preceding items left, evaluates to True; the stack left
\* is not a witness program (the integer 0 below a 20- or 32-byte string)
C7_P2SHIffHashAndRedeem ==
    (/\ P2SHReady
     /\ ~IsWitnessStack(stack, HashLen) /\ ~IsWitnessStack(stack, Sha256Len)
     /\ Outcome # "unknown" /\ OutcomeOf(RedeemItems, stack) # "unknown")
        => (Outcome = "true"
               <=> (RedeemHashMatches /\ OutcomeOf(RedeemItems, stack) = "true"))

\* a p2sh spend with a matching hash, on a non-empty stack, that is valid
C7_Witness ==
    /\ P2SHReady /\ RedeemHashMatches /\ stack # <<>>
    /\ ~IsWitnessStack(stack, HashLen) /\ ~IsWitnessStack(stack, Sha256Len)
    /\ Outcome = "true"

\* the stack and the queue the witness rules of the coming pass look at
AfterP2SH == P2SHRule(Head(items), Tail(items), Append(stack, Head(items)))
WitnessHash == AfterP2SH.stack[2].v
DirectP2WPKH ==
    OutcomeOf(witness_program \o p2pkh_script(WitnessHash), <<>>)

\* C8 as stated: when the p2wpkh rule fires, evaluate returns what the
\* witness items followed by the p2pkh script return on an empty stack
C8_P2WPKHEquivalence ==
    (AboutToFire("p2wpkh") /\ Outcome # "unknown" /\ DirectP2WPKH # "unknown")
        => Outcome = DirectP2WPKH

\* C8 amended: the same, when no unconsumed item is left in the queue at
\* the moment the rule fires
C8_P2WPKHEquivalenceAtEnd ==
    (/\ AboutToFire("p2wpkh") /\ AfterP2SH.items = <<>>
     /\ Outcome # "unknown" /\ DirectP2WPKH # "unknown")
        => Outcome = DirectP2WPKH

\* the p2wpkh rule fires on an empty queue and the spend is valid
C8_Witness ==
    /\ AboutToFire("p2wpkh") /\ AfterP2SH.items = <<>>
    /\ witness_program # <<>>
    /\ Outcome = "true" /\ DirectP2WPKH = "true"

\* the next three items of queue q are OP_HASH160, a 20-byte item, OP_EQUAL
TemplateAhead(q) ==
    /\ Len(q) >= 3
    /\ q[1] = Op(OP_HASH160)
    /\ IsData(q[2]) /\ Len(q[2].v) = HashLen
    /\ q[3] = Op(OP_EQUAL)

\* the rewrite rules the step being taken has applied
FiredNow(rule) == \E k \in (Len(fired) + 1)..Len(fired') : fired'[k] = rule

\* the loop is about to pop a data item / an opcode
DataPassNow == AboutToPass /\ steps < MaxSteps /\ IsData(Head(items))
OpcodePassNow == AboutToPass /\ steps < MaxSteps /\ IsOp(Head(items))

\* C13: a data push with the p2sh template as the next three items applies
\* the p2sh rewrite, whatever follows the three items
C13_P2SHTrigger ==
    [][(DataPassNow /\ TemplateAhead(Tail(items))) => FiredNow("p2sh")]_vars

\* the stack the witness rules of the step being taken have looked at:
\* the stack with the item pushed, or, when the p2sh rule was applied, the
\* stack it left
PushedStack == IF FiredNow("p2sh") THEN stack ELSE Append(stack, Head(items))

\* the p2sh rule of the step being taken has returned False
P2SHAborted == FiredNow("p2sh") /\ pc' = "done"

\* two elements, a zero on top and an n-byte string below it
ZeroOnTop(st, n) ==
    /\ Len(st) = 2
    /\ st[2] \in {Num(0), Data(<<0>>)}
    /\ IsData(st[1]) /\ Len(st[1].v) = n

\* two elements, an n-byte string on top and the integer 0 below it
ZeroBelow(st, n) ==
    /\ Len(st) = 2
    /\ st[1] = Num(0)
    /\ IsData(st[2]) /\ Len(st[2].v) = n

Unconsumed ==
    IF FiredNow("p2sh") THEN SubSeq(items, 5, Len(items)) ELSE Tail(items)

\* a rewrite rule was applied by the step being taken, which did not return
RewriteNow ==
    /\ AboutToPass /\ steps < MaxSteps /\ pc' = "loop"
    /\ FiredNow("p2sh") \/ FiredNow("p2wpkh") \/ FiredNow("p2wsh")

\* sequence t ends with sequence r
EndsWith(t, r) ==
    Len(t) >= Len(r) /\ SubSeq(t, Len(t) - Len(r) + 1, Len(t)) = r

\* C15: the items a rewrite splices in are put in front of the unconsumed
\* items, which stay, in their order, at the end of the queue
C15_SpliceAtFront ==
    [][RewriteNow => (Len(items') > Len(Unconsumed) /\ EndsWith(items', Unconsumed))]_vars

\* sequence t starts with sequence r
StartsWith(t, r) == Len(t) >= Len(r) /\ SubSeq(t, 1, Len(r)) = r

\* the last witness item is a byte string whose sha256 is h
WitnessScriptMatches(h) ==
    /\ witness_program # <<>>
    /\ IsData(witness_program[Len(witness_program)])
    /\ sha256(witness_program[Len(witness_program)].v) = h

\* the witness items but the last, then the last one parsed as a script
WitnessSplice ==
    SubSeq(witness_program, 1, Len(witness_program) - 1)
        \o ParsePrefixed(witness_program[Len(witness_program)].v).items

\* C16: when the p2wsh rule fires on the 32-byte value h, both elements
\* are popped; with a last witness item whose sha256 is h, evaluation goes
\* on with the other witness items and then the parsed witness script;
\* otherwise evaluate returns False
C16_P2WSHRewrite ==
    [][(AboutToPass /\ steps < MaxSteps /\ FiredNow("p2wsh")) =>
           /\ stack' = <<>>
           /\ IF WitnessScriptMatches(PushedStack[2].v)
              THEN pc' = "loop" /\ StartsWith(items', WitnessSplice)
              ELSE pc' = "done" /\ result' = "false"]_vars

\* the step being taken has applied no witness rule
NoWitnessRuleNow == ~FiredNow("p2wpkh") /\ ~FiredNow("p2wsh")

\* C17: when the p2sh rule fires on the pushed item r and the hash h of the
\* template: with hash160(r) # h evaluate returns False at once; with
\* hash160(r) = h the queue goes on with the items of r parsed as a script,
\* the three template items are gone, and the stack is the one before r
\* was pushed
C17_P2SHHashCheck ==
    [][(AboutToPass /\ steps < MaxSteps /\ FiredNow("p2sh")) =>
           IF hash160(Head(items).v) # items[3].v
           THEN pc' = "done" /\ result' = "false"
           ELSE /\ StartsWith(items', ParsePrefixed(Head(items).v).items)
                /\ NoWitnessRuleNow =>
                      /\ pc' = "loop"
                      /\ items' = ParsePrefixed(Head(items).v).items
                      /\ stack' = stack]_vars

\* the p2sh rule found the hashes equal on a stack that held an element
\* below the redeem script, and the redeem script is queued
C17_Witness ==
    /\ pc = "loop" /\ fired = <<"p2sh">> /\ stack # <<>> /\ items # <<>>
    /\ Len(self_items) >= 5

\* C18: a step that executes an opcode applies no rewrite, whatever stack
\* it leaves; a step that pushes a data item, wherever it stands in the
\* queue, applies each rule exactly when the rule's test holds after the
\* push
C18_RulesAfterPushOnly ==
    [][/\ OpcodePassNow => fired' = fired
       /\ DataPassNow =>
            /\ FiredNow("p2sh") <=> (Len(items) = 4 /\ TemplateAhead(Tail(items)))
            /\ FiredNow("p2wpkh") <=> (ZeroBelow(PushedStack, HashLen) /\ ~P2SHAborted)
            /\ FiredNow("p2wsh") <=> (ZeroBelow(PushedStack, Sha256Len) /\ ~P2SHAborted)]_vars

\* OP_HASH160 has left the integer 0 below a 20-byte string and no rewrite
\* has fired
C18_Witness ==
    /\ self_items = <<Op(OP_0), Data(SEC), Op(OP_HASH160)>>
    /\ steps = 3 /\ ZeroBelow(stack, HashLen) /\ fired = <<>>

----------------------------------------------------------------------------
(* Claims about Script.address *)

\* the script is exactly the template built from a hash of n bytes
IsP2PKHOf(h) == Len(h) = HashLen /\ self_items = p2pkh_script(h)
IsP2SHOf(h) == Len(h) = HashLen /\ self_items = p2sh_script(h)
IsWitnessProgramOf(h) ==
    Len(h) \in {HashLen, Sha256Len} /\ self_items = <<Op(OP_0), Data(h)>>

EmbeddedData == {self_items[i].v : i \in {j \in 1..Len(self_items) : IsData(self_items[j])}}

Bech32Prefix == IF testnet THEN "tb" ELSE "bc"

\* C9: address returns the base58 p2pkh / p2sh address of the embedded hash
\* for those templates, the bech32 address with prefix bc or tb of the
\* witness program for the two witness templates, and None for any other
\* script
C9_AddressByTemplate ==
    pc = "addressed" =>
        /\ \A h \in EmbeddedData :
              /\ IsP2PKHOf(h) => addr = Address("base58-p2pkh", h, Network(testnet))
              /\ IsP2SHOf(h) => addr = Address("base58-p2sh", h, Network(testnet))
              /\ IsWitnessProgramOf(h) =>
                    addr = Address("bech32", <<0, Len(h)>> \o h, Bech32Prefix)
        /\ (\A h \in EmbeddedData :
               ~IsP2PKHOf(h) /\ ~IsP2SHOf(h) /\ ~IsWitnessProgramOf(h))
              => addr = None

\* a 32-byte witness program was given its testnet address
C9_Witness ==
    /\ pc = "addressed" /\ testnet
    /\ \E h \in EmbeddedData : Len(h) = Sha256Len /\ IsWitnessProgramOf(h)
    /\ addr.enc = "bech32"

----------------------------------------------------------------------------
(* Claims about the transaction codec *)

\* C10: a transaction accepted by Tx.parse serializes to the bytes it was
\* parsed from, in the encoding (legacy or witness) seen at parse time
C10_TxRoundTrip ==
    txpc = "serialized" =>
        /\ txout = SubSeq(raw, 1, txpos)
        /\ tx.segwit = HasMarker(raw, IntBytes)
        /\ tx.segwit = HasMarker(txout, IntBytes)

----------------------------------------------------------------------------
(* Claims about transaction verification *)

\* what value() and script_pubkey() of input i resolve to
Resolvable(i) ==
    /\ vtx_ins[i]._value.set \/ vtx_ins[i].prev.ok
    /\ vtx_ins[i]._script_pubkey.set \/ vtx_ins[i].prev.ok
ResolvedValue(i) ==
    IF vtx_ins[i]._value.set THEN vtx_ins[i]._value.v ELSE vtx_ins[i].prev.amount
ResolvedScript(i) ==
    IF vtx_ins[i]._script_pubkey.set THEN vtx_ins[i]._script_pubkey.v
    ELSE vtx_ins[i].prev.script_pubkey

\* what evaluating script_sig + script_pubkey of input i gives
InputEvaluation(i) ==
    Run(vtx_ins[i].script_sig \o ResolvedScript(i), <<>>,
        vtx_ins[i].witness_program, MaxSteps)

AllInputsVerify == \A i \in 1..Len(vtx_ins) : InputEvaluation(i) = "true"

RECURSIVE ResolvedSum(_)
ResolvedSum(i) == IF i = 0 THEN 0 ELSE ResolvedValue(i) + ResolvedSum(i - 1)
FeeNotNegative == ResolvedSum(Len(vtx_ins)) >= SumAmounts(vtx_outs)

VerifyReturned ==
    /\ call.name = "verify"
    /\ \A i \in 1..Len(vtx_ins) : Resolvable(i)

\* C11: with every previous output resolved, verify returns True when
\* every input verifies and the input values cover the output amounts, and
\* returns False in every other case
C11_VerifyIffInputsAndFee ==
    VerifyReturned =>
        returned = RBool(IF AllInputsVerify /\ FeeNotNegative THEN "true" ELSE "false")

\* field f of input i is resolved
IsCached(i, f) == IF f = "value" THEN vtx_ins[i]._value.set ELSE vtx_ins[i]._script_pubkey.set

----------------------------------------------------------------------------
(* Claims about Script.serialize *)

\* bytes an item takes in the raw serialization: one for an opcode, one
\* more than its length for a data item
ItemSize(it) == IF IsOp(it) THEN 1 ELSE 1 + Len(it.v)

\* bytes taken by the items before item i
RECURSIVE Offset(_, _)
Offset(its, i) ==
    IF i <= 1 THEN 0 ELSE Offset(its, i - 1) + ItemSize(its[i - 1])

\* b holds, item after item, the opcode byte or the one-byte length
\* followed by the bytes of the data item
LaidOut(b, its) ==
    /\ Len(b) = Offset(its, Len(its) + 1)
    /\ \A i \in 1..Len(its) :
          LET off == Offset(its, i) IN
          IF IsOp(its[i]) THEN b[off + 1] = its[i].v[1]
          ELSE /\ b[off + 1] = Len(its[i].v)
               /\ SubSeq(b, off + 2, off + 1 + Len(its[i].v)) = its[i].v

\* b is encode_varint(n) followed by the n bytes of the raw serialization
SerializedLayout(b, its) ==
    LET n   == Offset(its, Len(its) + 1)
        pre == encode_varint(n)
    IN /\ Len(b) = Len(pre) + n
       /\ SubSeq(b, 1, Len(pre)) = pre
       /\ LaidOut(SubSeq(b, Len(pre) + 1, Len(b)), its)

\* parse gives back the items serialize was handed
ParsesBack == reparsed.st = "parsed" /\ reparsed.items = built

\* only data items of 1..75 bytes and opcodes outside 1..75
BasicEncoding(its) ==
    \A i \in 1..Len(its) :
       IF IsData(its[i]) THEN Len(its[i].v) \in 1..75
       ELSE its[i].v[1] \notin 1..75

\* the layout half of C21
SerializeLayout ==
    (FitsOneByte(built) /\ spc # "built") =>
        /\ spc \in {"serialized", "reparsed"}
        /\ SerializedLayout(sresult.v, built)

\* C21: for a Script whose data items are at most 255 bytes, serialize()
\* returns encode_varint(n) followed by the n bytes of the items laid out in
\* order (one byte per opcode, one-byte length then the bytes per data
\* item), and parse of these bytes gives the Script back
C21_SerializeLayoutAndInverse ==
    /\ SerializeLayout
    /\ (FitsOneByte(built) /\ spc = "reparsed") => ParsesBack

----------------------------------------------------------------------------
(* Claims about the nested p2sh-p2wpkh spend *)

\* the hashes h for which the run evaluates a p2sh-p2wpkh spend
NestedHashes == {hash160(SEC), hash160(R_TRUE)}

\* evaluating the witness items followed by the p2pkh script for h, on an
\* empty stack
DirectP2PKH(h) == OutcomeOf(witness_program \o p2pkh_script(h), <<>>)

\* C22: for a script_sig that is the single push of the redeem script
\* (0x00, h) and a script_pubkey that is the p2sh script of its hash160,
\* evaluate applies the p2sh rewrite, then the p2wpkh rewrite, and returns
\* what evaluating the witness items followed by the p2pkh script for h on
\* an empty stack returns
C22_NestedP2WPKH ==
    \A h \in NestedHashes :
        (self_items = NestedP2WPKH(h) /\ pc = "done") =>
            /\ Len(fired) >= 2 /\ fired[1] = "p2sh" /\ fired[2] = "p2wpkh"
            /\ result = DirectP2PKH(h)

\* a p2sh-p2wpkh spend with a valid signature and public key has returned True
C22_Witness ==
    /\ self_items = NestedP2WPKH(hash160(SEC)) /\ pc = "done"
    /\ witness_program = <<Data(SIG), Data(SEC)>>
    /\ fired = <<"p2sh", "p2wpkh">>
    /\ result = "true"

----------------------------------------------------------------------------
(* Claims about the termination of Script.evaluate *)

\* C23: for every item list and witness program, evaluate reaches a return
\* (True or False) after finitely many passes of its loop
C23_EvaluateTerminates == <>(pc = "done")

----------------------------------------------------------------------------
(* Claims about the script_pubkey templates *)

\* the template predicates an item list satisfies
TemplatesOf(its) ==
    (IF is_p2pkh_script_pubkey(its) THEN {"p2pkh"} ELSE {})
    \cup (IF is_p2sh_script_pubkey(its) THEN {"p2sh"} ELSE {})
    \cup (IF is_p2wpkh_script_pubkey(its) THEN {"p2wpkh"} ELSE {})
    \cup (IF is_p2wsh_script_pubkey(its) THEN {"p2wsh"} ELSE {})

\* Script.address with its four branches taken in the opposite order
address_last_branch_first(its, t) ==
    IF is_p2wsh_script_pubkey(its)
    THEN encode_bech32_checksum(raw_serialize(its), IF t THEN "tb" ELSE "bc")
    ELSE IF is_p2wpkh_script_pubkey(its)
         THEN encode_bech32_checksum(raw_serialize(its), IF t THEN "tb" ELSE "bc")
    ELSE IF is_p2sh_script_pubkey(its) THEN h160_to_p2sh_address(its[2].v, t)
    ELSE IF is_p2pkh_script_pubkey(its) THEN h160_to_p2pkh_address(its[3].v, t)
    ELSE None

====
